---- MODULE Spec2Model ----
(***************************************************************************)
(* Directory-structure visualizer: the text parser (src/lib/parser.ts),    *)
(* the tree-state reducer (src/hooks/useTreeState.ts), the page and the    *)
(* inline editor over it (src/app/page.tsx, src/components/TreeNode.tsx),  *)
(* and the exports (src/lib/formatter.ts, src/lib/export.ts).              *)
(*                                                                         *)
(* Strings are sequences of one-character strings.  The four box-drawing   *)
(* glyphs of the ASCII grammar are written with ASCII stand-ins, none of   *)
(* which is a letter, digit, '_', '.', '-', '/', '#' or white space:       *)
(*     "+" for U+251C (branch)      "^" for U+2514 (corner)                *)
(*     "|" for U+2502 (vertical)    "~" for U+2500 (horizontal)            *)
(***************************************************************************)
EXTENDS Integers, Sequences, FiniteSets, TLC

(***************************************************************************)
(* Bounds of the model.                                                    *)
(***************************************************************************)
MaxLines == 3
MaxIndent == 3
MaxBlocks == 1
MaxSteps == 5
MaxFactor == 2

(***************************************************************************)
(* Characters.                                                             *)
(***************************************************************************)
SP == " "
NL == "\n"
Dash == "-"
Slash == "/"
Hash == "#"
Tee == "+"
Corner == "^"
Vbar == "|"
Hbar == "~"

\* /\s/ restricted to the characters of the model
IsSpace(c) == c \in {SP, NL}

\* /[a-zA-Z0-9_.\-/]/ restricted to the characters of the model
IsContentChar(c) ==
  c \in {"a", "b", "c", "d", "e", "g", "i", "j", "k", "n", "o", "p", "r", "s", "t",
         "x", "z", "_", ".", Dash, Slash}

(***************************************************************************)
(* String primitives of JavaScript used by the parser.                     *)
(***************************************************************************)
\* s.substring(from) with a 0-based index
SubstringFrom(s, from) == SubSeq(s, from + 1, Len(s))

\* s.substring(from, to) with 0-based indices, clamped to the length
Substring(s, from, to) ==
  SubSeq(s, from + 1, IF to > Len(s) THEN Len(s) ELSE to)

RECURSIVE TrimStart(_)
TrimStart(s) ==
  IF s # <<>> /\ IsSpace(Head(s)) THEN TrimStart(Tail(s)) ELSE s

RECURSIVE TrimEnd(_)
TrimEnd(s) ==
  IF s # <<>> /\ IsSpace(s[Len(s)]) THEN TrimEnd(SubSeq(s, 1, Len(s) - 1)) ELSE s

\* s.trim()
Trim(s) == TrimEnd(TrimStart(s))

\* s.startsWith(p)
StartsWith(s, p) == Len(s) >= Len(p) /\ SubSeq(s, 1, Len(p)) = p

\* s.endsWith(p)
EndsWith(s, p) ==
  Len(s) >= Len(p) /\ SubSeq(s, Len(s) - Len(p) + 1, Len(s)) = p

\* s.includes(c) for a single character c
Includes(s, c) == \E i \in 1..Len(s) : s[i] = c

\* s.indexOf(c) for a single character c: 0-based, -1 when absent
IndexOf(s, c) ==
  IF Includes(s, c)
    THEN (CHOOSE i \in 1..Len(s) : s[i] = c /\ \A j \in 1..(i - 1) : s[j] # c) - 1
    ELSE -1

\* s.split('\n'): never the empty array, ''.split('\n') is ['']
RECURSIVE Split(_)
Split(s) ==
  IF ~Includes(s, NL) THEN <<s>>
  ELSE LET k == IndexOf(s, NL)
       IN  <<Substring(s, 0, k)>> \o Split(SubstringFrom(s, k + 1))

\* lines.join('\n'): [].join('\n') is ''
RECURSIVE Join(_)
Join(lines) ==
  IF lines = <<>> THEN <<>>
  ELSE IF Len(lines) = 1 THEN lines[1]
  ELSE lines[1] \o <<NL>> \o Join(Tail(lines))

\* number of leading white-space characters: the length of the group (\s*)
\* at the start of /^(\s*)-\s*(.+)$/ and of /^(\s*)(.+)$/
LeadingSpaces(s) == Len(s) - Len(TrimStart(s))


(***************************************************************************)
(* Tree nodes (TreeNode of src/lib/types).  A folder is a record with the  *)
(* field children; a file is a record without it, which is how             *)
(* `if (node.children)` tells them apart: an array, even an empty one, is  *)
(* truthy and undefined is not.                                            *)
(***************************************************************************)
HasChildren(node) == "children" \in DOMAIN node

\* `node-${Date.now()}-${Math.random().toString(36).substring(2, 11)}`.
\* Date.now() does not advance between the calls of one parse, so two ids
\* of one parse are equal exactly when the two random draws are equal.
GenerateId(rnd) == <<"node", rnd>>

\* the object literal of a new node, kept flat while the forest is built:
\* parent is the index of the node it was pushed under, 0 for `root`
NewNode(id, name, depth, parent) ==
  LET isFolder == EndsWith(name, <<Slash>>)
  IN  [id |-> id,
       name |-> IF isFolder THEN SubSeq(name, 1, Len(name) - 1) ELSE name,
       type |-> IF isFolder THEN "folder" ELSE "file",
       depth |-> depth,
       parent |-> parent]

\* the indices of the nodes put under p when each is put in front of the
\* earlier ones (unshift for push)
ChildIndices_unshift(flat, p) ==
  LET pushed == SelectSeq([i \in 1..Len(flat) |-> i], LAMBDA k : flat[k].parent = p)
  IN  [i \in 1..Len(pushed) |-> pushed[Len(pushed) + 1 - i]]

\* the indices of the nodes pushed under p, in push order
ChildIndices(flat, p) ==
  SelectSeq([i \in 1..Len(flat) |-> i], LAMBDA k : flat[k].parent = p)

\* the nested forest the pushes have built below p (p = 0: the array `root`)
RECURSIVE BuildForest(_, _)
BuildForest(flat, p) ==
  LET kids == ChildIndices(flat, p)
      Node(k) ==
        IF flat[k].type = "folder"
          THEN [id |-> flat[k].id, name |-> flat[k].name, type |-> "folder",
                depth |-> flat[k].depth, isExpanded |-> TRUE,
                children |-> BuildForest(flat, k)]
          ELSE [id |-> flat[k].id, name |-> flat[k].name, type |-> "file",
                depth |-> flat[k].depth, isExpanded |-> TRUE]
  IN  [i \in 1..Len(kids) |-> Node(kids[i])]

\* adjustDepth(nodes, increment)
RECURSIVE adjustDepth(_, _)
adjustDepth(nodes, increment) ==
  [i \in 1..Len(nodes) |->
     IF HasChildren(nodes[i])
       THEN [nodes[i] EXCEPT !.depth = @ + increment,
                             !.children = adjustDepth(@, increment)]
       ELSE [nodes[i] EXCEPT !.depth = @ + increment]]

\* the tail without the depth adjustment
FinishParse_noAdjust(root) ==
  IF Len(root) = 0
    THEN [success |-> FALSE, error |-> "No valid directory structure found in input"]
  ELSE [success |-> TRUE, nodes |-> root]

\* the tail shared by parseMarkdown and parseAscii: the rejection of an
\* empty forest and the depth adjustment of a single root folder
FinishParse(root) ==
  IF Len(root) = 0
    THEN [success |-> FALSE, error |-> "No valid directory structure found in input"]
  ELSE IF /\ Len(root) = 1
          /\ root[1].type = "folder"
          /\ HasChildren(root[1])
          /\ Len(root[1].children) > 0
    THEN [success |-> TRUE,
          nodes |-> <<[root[1] EXCEPT !.children = adjustDepth(@, 1)]>>]
  ELSE [success |-> TRUE, nodes |-> root]

(***************************************************************************)
(* parseMarkdown.  The loop state is [flat, stack]; rnd[k] is the random   *)
(* draw of the k-th call of generateId.                                    *)
(***************************************************************************)
\* while (stack.length > 0 && stack[stack.length - 1].indent >= indent) pop
RECURSIVE PopIndent(_, _)
PopIndent(stack, indent) ==
  IF Len(stack) > 0 /\ stack[Len(stack)].indent >= indent
    THEN PopIndent(SubSeq(stack, 1, Len(stack) - 1), indent)
    ELSE stack

\* the name a line yields: match[2].trim() when /^(\s*)-\s*(.+)$/ matches,
\* plainMatch[2].trim() otherwise
MarkdownName(line) ==
  LET rest == TrimStart(line)
  IN  IF Head(rest) = Dash /\ Len(rest) >= 2
        THEN Trim(SubstringFrom(rest, 1))
        ELSE Trim(rest)

\* the iteration pushing every node on the stack, files too: a line below a
\* file then finds the file on top, `if (parent.children)` fails and the
\* node is pushed nowhere
MarkdownLine_pushesFiles(st, line, rnd) ==
  IF Trim(line) = <<>> THEN st
  ELSE
    LET indent == LeadingSpaces(line)
        name == MarkdownName(line)
        depth == indent \div 2
        popped == PopIndent(st.stack, indent)
        parent == IF Len(popped) = 0 THEN 0 ELSE popped[Len(popped)].node
        node == NewNode(GenerateId(rnd[Len(st.flat) + 1]), name, depth, parent)
        k == Len(st.flat) + 1
    IN  [flat |-> Append(st.flat, node),
         stack |-> Append(popped, [node |-> k, indent |-> indent])]

\* the iteration keeping the depth of a folder on the stack and comparing
\* depths, where the code keeps and compares the indentation widths
MarkdownLine_byDepth(st, line, rnd) ==
  IF Trim(line) = <<>> THEN st
  ELSE
    LET indent == LeadingSpaces(line)
        name == MarkdownName(line)
        depth == indent \div 2
        popped == PopIndent(st.stack, depth)
        parent == IF Len(popped) = 0 THEN 0 ELSE popped[Len(popped)].node
        node == NewNode(GenerateId(rnd[Len(st.flat) + 1]), name, depth, parent)
        k == Len(st.flat) + 1
    IN  [flat |-> Append(st.flat, node),
         stack |-> IF node.type = "folder"
                     THEN Append(popped, [node |-> k, indent |-> depth])
                     ELSE popped]

\* one iteration of the loop over the lines
MarkdownLine(st, line, rnd) ==
  IF Trim(line) = <<>> THEN st
  ELSE
    LET indent == LeadingSpaces(line)
        name == MarkdownName(line)
        depth == indent \div 2
        popped == PopIndent(st.stack, indent)
        parent == IF Len(popped) = 0 THEN 0 ELSE popped[Len(popped)].node
        node == NewNode(GenerateId(rnd[Len(st.flat) + 1]), name, depth, parent)
        k == Len(st.flat) + 1
    IN  [flat |-> Append(st.flat, node),
         stack |-> IF node.type = "folder"
                     THEN Append(popped, [node |-> k, indent |-> indent])
                     ELSE popped]

RECURSIVE MarkdownLoop(_, _, _)
MarkdownLoop(st, lines, rnd) ==
  IF lines = <<>> THEN st
  ELSE MarkdownLoop(MarkdownLine(st, Head(lines), rnd), Tail(lines), rnd)

parseMarkdown(input, rnd) ==
  LET st == MarkdownLoop([flat |-> <<>>, stack |-> <<>>], Split(input), rnd)
  IN  FinishParse(BuildForest(st.flat, 0))

(***************************************************************************)
(* parseAscii.                                                             *)
(***************************************************************************)
\* treeChars: the two node markers and the two indentation blocks
BranchMarker == <<Tee, Hbar, Hbar>>
CornerMarker == <<Corner, Hbar, Hbar>>
VerticalBlock == <<Vbar, SP, SP, SP>>
BlankBlock == <<SP, SP, SP, SP>>

\* the prefix scan `while (pos < cleanLine.length)`: a node marker replaces
\* cleanLine by the trimmed remainder and leaves pos where it is, an
\* indentation block adds a level and advances pos, anything else ends the
\* scan
RECURSIVE ScanPrefix(_, _, _, _)
ScanPrefix(cleanLine, pos, level, foundTreeChar) ==
  IF pos >= Len(cleanLine)
    THEN [cleanLine |-> cleanLine, level |-> level, foundTreeChar |-> foundTreeChar]
  ELSE IF \/ Substring(cleanLine, pos, pos + 3) = BranchMarker
          \/ Substring(cleanLine, pos, pos + 3) = CornerMarker
    THEN ScanPrefix(Trim(SubstringFrom(cleanLine, pos + 3)), pos, level, TRUE)
  ELSE IF \/ Substring(cleanLine, pos, pos + 4) = VerticalBlock
          \/ Substring(cleanLine, pos, pos + 4) = BlankBlock
    THEN ScanPrefix(cleanLine, pos + 4, level + 1, TRUE)
  ELSE [cleanLine |-> Trim(cleanLine), level |-> level, foundTreeChar |-> foundTreeChar]

\* the loop that pops the stack with `>` for `>=`
RECURSIVE PopLevel_strict(_, _)
PopLevel_strict(stack, level) ==
  IF Len(stack) > 0 /\ stack[Len(stack)].level > level
    THEN PopLevel_strict(SubSeq(stack, 1, Len(stack) - 1), level)
    ELSE stack

\* while (stack.length > 0 && stack[stack.length - 1].level >= level) pop
RECURSIVE PopLevel(_, _)
PopLevel(stack, level) ==
  IF Len(stack) > 0 /\ stack[Len(stack)].level >= level
    THEN PopLevel(SubSeq(stack, 1, Len(stack) - 1), level)
    ELSE stack

\* the iteration that pushes the bare first line with the level 0, the level
\* of the lines below it
AsciiLine_rootAtLevelZero(st, line, i, rnd) ==
  IF Trim(line) = <<>> THEN st
  ELSE
    LET scan == ScanPrefix(line, 0, 0, FALSE)
        name == Trim(scan.cleanLine)
        level == scan.level
        isFolder == EndsWith(name, <<Slash>>)
        k == Len(st.flat) + 1
        id == GenerateId(rnd[k])
    IN  IF name = <<>> THEN st
        ELSE IF ~scan.foundTreeChar /\ i = 0 /\ isFolder
          THEN [flat |-> Append(st.flat, NewNode(id, name, 0, 0)),
                stack |-> Append(st.stack, [node |-> k, level |-> 0])]
        ELSE
          LET popped == PopLevel(st.stack, level)
              parent == IF Len(popped) = 0 THEN 0 ELSE popped[Len(popped)].node
          IN  [flat |-> Append(st.flat, NewNode(id, name, level, parent)),
               stack |-> IF isFolder
                           THEN Append(popped, [node |-> k, level |-> level])
                           ELSE popped]

\* one iteration of the loop over the lines; i is the 0-based line index
AsciiLine(st, line, i, rnd) ==
  IF Trim(line) = <<>> THEN st
  ELSE
    LET scan == ScanPrefix(line, 0, 0, FALSE)
        name == Trim(scan.cleanLine)
        level == scan.level
        isFolder == EndsWith(name, <<Slash>>)
        k == Len(st.flat) + 1
        id == GenerateId(rnd[k])
    IN  IF name = <<>> THEN st
        ELSE IF ~scan.foundTreeChar /\ i = 0 /\ isFolder
          THEN [flat |-> Append(st.flat, NewNode(id, name, 0, 0)),
                stack |-> Append(st.stack, [node |-> k, level |-> -1])]
        ELSE
          LET popped == PopLevel(st.stack, level)
              parent == IF Len(popped) = 0 THEN 0 ELSE popped[Len(popped)].node
          IN  [flat |-> Append(st.flat, NewNode(id, name, level, parent)),
               stack |-> IF isFolder
                           THEN Append(popped, [node |-> k, level |-> level])
                           ELSE popped]

RECURSIVE AsciiLoop(_, _, _, _)
AsciiLoop(st, lines, i, rnd) ==
  IF i >= Len(lines) THEN st
  ELSE AsciiLoop(AsciiLine(st, lines[i + 1], i, rnd), lines, i + 1, rnd)

parseAscii(input, rnd) ==
  LET st == AsciiLoop([flat |-> <<>>, stack |-> <<>>], Split(input), 0, rnd)
  IN  FinishParse(BuildForest(st.flat, 0))

(***************************************************************************)
(* sanitizeInput, detectFormat and parseDirectoryStructure.                *)
(***************************************************************************)
\* the .map() that removes full-line comments and leaves inline ones
StripComment_fullLineOnly(line) ==
  IF StartsWith(Trim(line), <<Hash>>) THEN <<>> ELSE line

\* the .map() of sanitizeInput: a comment line becomes '', any other line
\* is cut at its first '#'
StripComment(line) ==
  IF StartsWith(Trim(line), <<Hash>>) THEN <<>>
  ELSE IF IndexOf(line, Hash) # -1 THEN Substring(line, 0, IndexOf(line, Hash))
  ELSE line

\* the .filter() without its test for a character of a name
KeepLine_emptyOnly(line) == Len(Trim(line)) # 0

\* the .filter() of sanitizeInput
KeepLine(line) ==
  /\ Len(Trim(line)) # 0
  /\ \E i \in 1..Len(Trim(line)) : IsContentChar(Trim(line)[i])

sanitizeInput(input) ==
  LET lines == Split(input)
      mapped == [i \in 1..Len(lines) |-> StripComment(lines[i])]
  IN  Join(SelectSeq(mapped, KeepLine))

\* detectFormat testing for the markdown bullet before the tree characters
detectFormat_markdownFirst(input) ==
  LET hasAsciiChars == \E c \in {Tee, Corner, Vbar, Hbar} : Includes(input, c)
      lines == SelectSeq(Split(Trim(input)), LAMBDA line : Trim(line) # <<>>)
      hasMarkdownFormat ==
        \E i \in 1..Len(lines) : StartsWith(Trim(lines[i]), <<Dash>>)
  IN  IF hasMarkdownFormat THEN "markdown"
      ELSE IF hasAsciiChars THEN "ascii"
      ELSE IF Len(lines) > 0 THEN "markdown"
      ELSE "unknown"

detectFormat(input) ==
  LET hasAsciiChars == \E c \in {Tee, Corner, Vbar, Hbar} : Includes(input, c)
      lines == SelectSeq(Split(Trim(input)), LAMBDA line : Trim(line) # <<>>)
      hasMarkdownFormat ==
        \E i \in 1..Len(lines) : StartsWith(Trim(lines[i]), <<Dash>>)
  IN  IF hasAsciiChars THEN "ascii"
      ELSE IF hasMarkdownFormat THEN "markdown"
      ELSE IF Len(lines) > 0 THEN "markdown"
      ELSE "unknown"

\* parseDirectoryStructure without its first test, of the raw input
parseDirectoryStructure_noEmptyTest(input, rnd) ==
  IF FALSE
    THEN [success |-> FALSE,
          error |-> "Input is empty. Please provide a directory structure."]
  ELSE
    LET sanitizedInput == sanitizeInput(input)
        format == detectFormat(sanitizedInput)
    IN  IF Trim(sanitizedInput) = <<>>
          THEN [success |-> FALSE,
                error |-> "Input contains only comments or whitespace. Please provide a valid directory structure."]
        ELSE IF format = "unknown"
          THEN [success |-> FALSE,
                error |-> "Unable to detect input format. Please use markdown (- folder/) or ASCII (+~~ folder/) format."]
        ELSE IF format = "markdown" THEN parseMarkdown(sanitizedInput, rnd)
        ELSE parseAscii(sanitizedInput, rnd)

parseDirectoryStructure(input, rnd) ==
  IF input = <<>> \/ Trim(input) = <<>>
    THEN [success |-> FALSE,
          error |-> "Input is empty. Please provide a directory structure."]
  ELSE
    LET sanitizedInput == sanitizeInput(input)
        format == detectFormat(sanitizedInput)
    IN  IF Trim(sanitizedInput) = <<>>
          THEN [success |-> FALSE,
                error |-> "Input contains only comments or whitespace. Please provide a valid directory structure."]
        ELSE IF format = "unknown"
          THEN [success |-> FALSE,
                error |-> "Unable to detect input format. Please use markdown (- folder/) or ASCII (+~~ folder/) format."]
        ELSE IF format = "markdown" THEN parseMarkdown(sanitizedInput, rnd)
        ELSE parseAscii(sanitizedInput, rnd)

(***************************************************************************)
(* The tree-state reducer of src/hooks/useTreeState.ts.                    *)
(***************************************************************************)
\* null, as the value of selectedNodeId
Null == <<"null">>

\* null, as the result of findNodeById
NoNode == [null |-> TRUE]

initialState == [nodes |-> <<>>, selectedNodeId |-> Null]

\* toggleNodeExpand collapsing the folder instead of negating its flag
RECURSIVE toggleNodeExpand_collapseOnly(_, _)
toggleNodeExpand_collapseOnly(nodes, targetId) ==
  [i \in 1..Len(nodes) |->
     LET node == nodes[i]
     IN  IF node.id = targetId /\ node.type = "folder"
           THEN [node EXCEPT !.isExpanded = FALSE]
         ELSE IF HasChildren(node)
           THEN [node EXCEPT !.children = toggleNodeExpand_collapseOnly(@, targetId)]
         ELSE node]

\* toggleNodeExpand without the test `node.type === 'folder'`
RECURSIVE toggleNodeExpand_anyType(_, _)
toggleNodeExpand_anyType(nodes, targetId) ==
  [i \in 1..Len(nodes) |->
     LET node == nodes[i]
     IN  IF node.id = targetId
           THEN [node EXCEPT !.isExpanded = ~@]
         ELSE IF HasChildren(node)
           THEN [node EXCEPT !.children = toggleNodeExpand_anyType(@, targetId)]
         ELSE node]

\* toggleNodeExpand carrying the new flag down to the children of the folder
RECURSIVE toggleNodeExpand_cascade(_, _)
toggleNodeExpand_cascade(nodes, targetId) ==
  [i \in 1..Len(nodes) |->
     LET node == nodes[i]
     IN  IF node.id = targetId /\ node.type = "folder"
           THEN [node EXCEPT !.isExpanded = ~@,
                             !.children = [j \in 1..Len(@) |->
                                             [@[j] EXCEPT !.isExpanded = ~node.isExpanded]]]
         ELSE IF HasChildren(node)
           THEN [node EXCEPT !.children = toggleNodeExpand_cascade(@, targetId)]
         ELSE node]

RECURSIVE toggleNodeExpand(_, _)
toggleNodeExpand(nodes, targetId) ==
  [i \in 1..Len(nodes) |->
     LET node == nodes[i]
     IN  IF node.id = targetId /\ node.type = "folder"
           THEN [node EXCEPT !.isExpanded = ~@]
         ELSE IF HasChildren(node)
           THEN [node EXCEPT !.children = toggleNodeExpand(@, targetId)]
         ELSE node]

\* renameNode that does not descend into children
renameNode_topLevelOnly(nodes, targetId, newName) ==
  [i \in 1..Len(nodes) |->
     IF nodes[i].id = targetId THEN [nodes[i] EXCEPT !.name = newName] ELSE nodes[i]]

\* renameNode building the renamed node afresh, isExpanded back at its default
RECURSIVE renameNode_resetsExpanded(_, _, _)
renameNode_resetsExpanded(nodes, targetId, newName) ==
  [i \in 1..Len(nodes) |->
     LET node == nodes[i]
     IN  IF node.id = targetId
           THEN [node EXCEPT !.name = newName, !.isExpanded = TRUE]
         ELSE IF HasChildren(node)
           THEN [node EXCEPT !.children = renameNode_resetsExpanded(@, targetId, newName)]
         ELSE node]

RECURSIVE renameNode(_, _, _)
renameNode(nodes, targetId, newName) ==
  [i \in 1..Len(nodes) |->
     LET node == nodes[i]
     IN  IF node.id = targetId
           THEN [node EXCEPT !.name = newName]
         ELSE IF HasChildren(node)
           THEN [node EXCEPT !.children = renameNode(@, targetId, newName)]
         ELSE node]

\* deleteNode that does not descend into children
deleteNode_topLevelOnly(nodes, targetId) ==
  SelectSeq(nodes, LAMBDA node : node.id # targetId)

\* deleteNode collecting the kept nodes in reverse
RECURSIVE deleteNode_reversed(_, _)
deleteNode_reversed(nodes, targetId) ==
  LET kept == SelectSeq(nodes, LAMBDA node : node.id # targetId)
  IN  [i \in 1..Len(kept) |->
         LET node == kept[Len(kept) + 1 - i]
         IN  IF HasChildren(node)
               THEN [node EXCEPT !.children = deleteNode_reversed(@, targetId)]
               ELSE node]

RECURSIVE deleteNode(_, _)
deleteNode(nodes, targetId) ==
  LET kept == SelectSeq(nodes, LAMBDA node : node.id # targetId)
  IN  [i \in 1..Len(kept) |->
         IF HasChildren(kept[i])
           THEN [kept[i] EXCEPT !.children = deleteNode(@, targetId)]
           ELSE kept[i]]

RECURSIVE findNodeById(_, _)
findNodeById(nodes, targetId) ==
  IF nodes = <<>> THEN NoNode
  ELSE LET node == Head(nodes)
           found == IF HasChildren(node)
                      THEN findNodeById(node.children, targetId)
                      ELSE NoNode
       IN  IF node.id = targetId THEN node
           ELSE IF found # NoNode THEN found
           ELSE findNodeById(Tail(nodes), targetId)

\* treeReducer whose DELETE_NODE leaves selectedNodeId alone
treeReducer_deleteKeepsSelection(st, act) ==
  CASE act.type = "SET_TREE" ->
         [st EXCEPT !.nodes = act.payload, !.selectedNodeId = Null]
    [] act.type = "TOGGLE_EXPAND" ->
         [st EXCEPT !.nodes = toggleNodeExpand(st.nodes, act.payload)]
    [] act.type = "RENAME_NODE" ->
         [st EXCEPT !.nodes = renameNode(st.nodes, act.payload.id, act.payload.name)]
    [] act.type = "DELETE_NODE" ->
         [st EXCEPT !.nodes = deleteNode(st.nodes, act.payload)]
    [] act.type = "SELECT_NODE" ->
         [st EXCEPT !.selectedNodeId = act.payload]
    [] OTHER -> st

\* treeReducer whose SET_TREE leaves selectedNodeId alone
treeReducer_setTreeKeepsSelection(st, act) ==
  CASE act.type = "SET_TREE" ->
         [st EXCEPT !.nodes = act.payload]
    [] act.type = "TOGGLE_EXPAND" ->
         [st EXCEPT !.nodes = toggleNodeExpand(st.nodes, act.payload)]
    [] act.type = "RENAME_NODE" ->
         [st EXCEPT !.nodes = renameNode(st.nodes, act.payload.id, act.payload.name)]
    [] act.type = "DELETE_NODE" ->
         [st EXCEPT !.nodes = deleteNode(st.nodes, act.payload),
                    !.selectedNodeId =
                       IF st.selectedNodeId = act.payload THEN Null ELSE @]
    [] act.type = "SELECT_NODE" ->
         [st EXCEPT !.selectedNodeId = act.payload]
    [] OTHER -> st

treeReducer(st, act) ==
  CASE act.type = "SET_TREE" ->
         [st EXCEPT !.nodes = act.payload, !.selectedNodeId = Null]
    [] act.type = "TOGGLE_EXPAND" ->
         [st EXCEPT !.nodes = toggleNodeExpand(st.nodes, act.payload)]
    [] act.type = "RENAME_NODE" ->
         [st EXCEPT !.nodes = renameNode(st.nodes, act.payload.id, act.payload.name)]
    [] act.type = "DELETE_NODE" ->
         [st EXCEPT !.nodes = deleteNode(st.nodes, act.payload),
                    !.selectedNodeId =
                       IF st.selectedNodeId = act.payload THEN Null ELSE @]
    [] act.type = "SELECT_NODE" ->
         [st EXCEPT !.selectedNodeId = act.payload]
    [] OTHER -> st

(***************************************************************************)
(* The inputs of the model.                                                *)
(***************************************************************************)
Spaces(n) == [i \in 1..n |-> SP]

RECURSIVE Concat(_)
Concat(seqs) == IF seqs = <<>> THEN <<>> ELSE Head(seqs) \o Concat(Tail(seqs))

SeqsUpTo(S, n) == UNION {[1..k -> S] : k \in 0..n}

\* a file name and a folder name, as they are written in a line
NameForms == {<<"a">>, <<"a", Slash>>}

\* `<indentation>- <name>`
MarkdownLines ==
  {Spaces(w) \o <<Dash, SP>> \o n : w \in 0..MaxIndent, n \in NameForms}

\* the bare `<name>/` of a line without marker
BareLines == {<<"a", Slash>>}

\* `<indentation blocks><node marker>`: both markers without indentation,
\* and below k levels the corner after vertical blocks and the branch after
\* blank blocks
AsciiPrefixes ==
  {BranchMarker, CornerMarker}
    \cup {Concat([i \in 1..k |-> VerticalBlock]) \o CornerMarker : k \in 1..MaxBlocks}
    \cup {Concat([i \in 1..k |-> BlankBlock]) \o BranchMarker : k \in 1..MaxBlocks}

\* `<indentation blocks><node marker> <name>`
AsciiLines == {p \o <<SP>> \o n : p \in AsciiPrefixes, n \in NameForms}

TextsOf(lines) == {Join(ls) : ls \in SeqsUpTo(lines, MaxLines) \ {<<>>}}

Texts ==
  TextsOf(MarkdownLines \cup BareLines) \cup TextsOf(AsciiLines \cup BareLines)

\* lines of both grammars in one text: bullets, a marker line, and a bullet
\* whose name holds a tree character
MixedLines ==
  { <<Dash, SP, "a", Slash>>,
    <<SP, SP, Dash, SP, "a">>,
    BranchMarker \o <<SP, "a">>,
    <<Dash, SP, "a", Vbar>> }

MixedTexts == TextsOf(MixedLines)

\* lines whose name part is '/' alone, in both grammars, and two with a name
NamelessLines ==
  { <<Dash, SP, Slash>>,
    BranchMarker \o <<SP, Slash>>,
    <<Dash, SP, "a">>,
    <<SP, SP, Dash, SP, "a", Slash>> }

NamelessTexts == TextsOf(NamelessLines)

\* lines that give no node: a marker alone, a vertical block alone, a
\* comment, and a marker line of which the scan leaves nothing (its name
\* is as long as the indentation and a second marker follows it); and two
\* lines that give one
BarrenLines ==
  { BranchMarker,
    VerticalBlock,
    <<Hash, SP, "a">>,
    VerticalBlock \o BranchMarker \o <<SP, "a", "a", "a", "a">> \o BranchMarker,
    <<Dash, SP, "a">>,
    CornerMarker \o <<SP, "a", SP, Hash, "b">> }

BarrenTexts == TextsOf(BarrenLines)

\* a folder line under a blank block and under a vertical block, without
\* marker, and two marker lines
IndentedRootLines ==
  { BlankBlock \o <<"a", Slash>>,
    VerticalBlock \o <<"a", Slash>>,
    BranchMarker \o <<SP, "a">>,
    BlankBlock \o CornerMarker \o <<SP, "a", Slash>> }

IndentedRootTexts == TextsOf(IndentedRootLines)

\* marker lines whose names hold a vertical block, a second marker, and a
\* blank block as far from the start of the name as the marker is from the
\* start of the line; and a plain one
BlockNameLines ==
  { BranchMarker \o <<SP>> \o VerticalBlock \o <<"a">>,
    BranchMarker \o <<SP>> \o CornerMarker \o <<SP, "a">>,
    VerticalBlock \o CornerMarker \o <<SP, "a", "a", "a", "a">> \o BlankBlock \o <<"a">>,
    BranchMarker \o <<SP, "a", Slash>> }

BlockNameTexts == TextsOf(BlockNameLines)

\* the two documents of the specification's examples
MarkdownExample ==
  Join(<< <<Dash, SP, "s", "r", "c", Slash>>,
          <<SP, SP, Dash, SP, "i", "n", "d", "e", "x", ".", "t", "s">> >>)

AsciiExample ==
  Join(<< <<"p", "r", "o", "j", "e", "c", "t", Slash>>,
          BranchMarker \o <<SP, "s", "r", "c", Slash>>,
          VerticalBlock \o CornerMarker \o <<SP, "i", "n", "d", "e", "x", ".", "t", "s">>,
          CornerMarker \o <<SP, "p", "a", "c", "k", "a", "g", "e", ".", "j", "s", "o", "n">> >>)

ExampleTexts == {MarkdownExample, AsciiExample}

\* lines for the sanitizer: comments, indented or not, inline comments, a
\* name of underscores, decoration, white space, an indented bullet
SanitizerLines ==
  { <<Hash, SP, "a">>,
    <<SP, Hash, "a">>,
    <<SP, SP, Dash, SP, "a", SP, Hash, "b", Hash>>,
    <<"a", Hash>>,
    <<"_">>,
    BranchMarker \o <<SP, Hash, "a">>,
    <<SP, SP>>,
    <<SP, "a", Slash>> }

SanitizerTexts == TextsOf(SanitizerLines)

\* texts of white space alone, the empty text among them
BlankTexts == SeqsUpTo({SP, NL}, MaxLines)

\* the texts handed to the parsers one by one: the blank ones, and bullet
\* lines and blank lines together
CallTexts ==
  BlankTexts
    \cup {Join(ls) : ls \in SeqsUpTo(MarkdownLines \cup {<<>>, <<SP>>}, 2) \ {<<>>}}

\* The random draws of the calls of generateId of one parse, one per line.
\* Ids are only ever compared for equality, so the draws are numbered in
\* the order they first occur.  The generator either returns a new value at
\* every call, or returns k different values and from then on the k-th
\* again.
Entropy ==
  {[i \in 1..MaxLines + 1 |-> IF i <= k THEN i ELSE k] : k \in 1..MaxLines}

\* the draws of a generator that never repeats
FreshDraws == [i \in 1..MaxLines + 1 |-> i]

(***************************************************************************)
(* State.                                                                  *)
(***************************************************************************)
VARIABLES
  input,      \* the text handed to parseDirectoryStructure
  result,     \* the ParseResult it returned, NoResult before the call
  state,      \* the TreeState held by useReducer
  prev,       \* the TreeState the last dispatched action was applied to
  action,     \* the last dispatched action
  installed,  \* the payload of the last SET_TREE
  steps,      \* the number of clicks on Parse and of actions reduced so far
  entry,      \* the function of parser.ts the text was handed to
  pending,    \* the actions a handler dispatched that are not reduced yet
  clicks,     \* the number of clicks on the Parse button so far
  editor      \* the inline editor of the tree view: isEditing and editValue

vars ==
  <<input, result, state, prev, action, installed, steps, entry, pending, clicks, editor>>

NoResult == [pending |-> TRUE]
NoAction == [type |-> "NONE"]
NoEntry == "none"

\* the editor of no node: isEditing false in every TreeNode; event is the
\* event that closed the last editor
NoEditor(event) == [isEditing |-> FALSE, event |-> event]

(***************************************************************************)
(* The parser run on one input.                                            *)
(***************************************************************************)
InitParse ==
  /\ input \in Texts \cup MixedTexts \cup NamelessTexts \cup BarrenTexts
                   \cup BlankTexts \cup ExampleTexts \cup IndentedRootTexts
                   \cup BlockNameTexts
  /\ result = NoResult
  /\ state = initialState
  /\ prev = initialState
  /\ action = NoAction
  /\ installed = <<>>
  /\ steps = 0
  /\ entry = NoEntry
  /\ pending = <<>>
  /\ clicks = 0
  /\ editor = NoEditor("none")

Parse ==
  /\ result = NoResult
  /\ \E rnd \in Entropy : result' = parseDirectoryStructure(input, rnd)
  /\ entry' = "parseDirectoryStructure"
  /\ UNCHANGED <<input, state, prev, action, installed, steps, pending, clicks, editor>>

NextParse == Parse

SpecParse == InitParse /\ [][NextParse]_vars

(***************************************************************************)
(* parseMarkdown and parseDirectoryStructure, each called on one text.     *)
(***************************************************************************)
InitCall ==
  /\ input \in CallTexts
  /\ result = NoResult
  /\ state = initialState
  /\ prev = initialState
  /\ action = NoAction
  /\ installed = <<>>
  /\ steps = 0
  /\ entry = NoEntry
  /\ pending = <<>>
  /\ clicks = 0
  /\ editor = NoEditor("none")

ParseMarkdownOnly ==
  /\ result = NoResult
  /\ \E rnd \in Entropy : result' = parseMarkdown(input, rnd)
  /\ entry' = "parseMarkdown"
  /\ UNCHANGED <<input, state, prev, action, installed, steps, pending, clicks, editor>>

NextCall == Parse \/ ParseMarkdownOnly

SpecCall == InitCall /\ [][NextCall]_vars

(***************************************************************************)
(* sanitizeInput called on one text.                                       *)
(***************************************************************************)
InitSanitize ==
  /\ input \in SanitizerTexts
  /\ result = NoResult
  /\ state = initialState
  /\ prev = initialState
  /\ action = NoAction
  /\ installed = <<>>
  /\ steps = 0
  /\ entry = NoEntry
  /\ pending = <<>>
  /\ clicks = 0
  /\ editor = NoEditor("none")

Sanitize ==
  /\ result = NoResult
  /\ result' = [text |-> sanitizeInput(input)]
  /\ entry' = "sanitizeInput"
  /\ UNCHANGED <<input, state, prev, action, installed, steps, pending, clicks, editor>>

NextSanitize == Sanitize

SpecSanitize == InitSanitize /\ [][NextSanitize]_vars

(***************************************************************************)
(* The tree state under the actions of the hook useTreeState.              *)
(***************************************************************************)
MdLine(w, n) == Spaces(w) \o <<Dash, SP>> \o n
File == <<"a">>
Folder == <<"a", Slash>>

\* the documents whose forests are handed to setTree
EngineTexts ==
  { Join(<<MdLine(0, File)>>),
    Join(<<MdLine(0, Folder), MdLine(2, Folder), MdLine(4, File)>>),
    Join(<<MdLine(0, Folder), MdLine(2, File), MdLine(0, File)>>),
    Join(<<MdLine(0, Folder), MdLine(2, Folder), MdLine(2, File)>>),
    Join(<<MdLine(0, File), MdLine(0, Folder), MdLine(0, Folder)>>),
    Join(<<Folder, BranchMarker \o <<SP>> \o Folder,
           VerticalBlock \o CornerMarker \o <<SP>> \o File>>),
    Join(<<BranchMarker \o <<SP>> \o Folder,
           VerticalBlock \o CornerMarker \o <<SP>> \o File,
           CornerMarker \o <<SP>> \o File>>) }

\* the random draws behind their ids
EngineEntropy == Entropy

Forests ==
  {r.nodes : r \in {x \in {parseDirectoryStructure(t, rnd) :
                             t \in EngineTexts, rnd \in EngineEntropy} : x.success}}

\* the ids handed to the actions: those of the forests and one of no node
AbsentId == GenerateId(0)
Ids == {GenerateId(r) : r \in 1..MaxLines} \cup {AbsentId}

\* the names handed to rename: the name every parsed node has, and another
RenameNames == {<<"a">>, <<"z">>}

Init ==
  /\ input = <<>>
  /\ result = NoResult
  /\ state = initialState
  /\ prev = initialState
  /\ action = NoAction
  /\ installed = <<>>
  /\ steps = 0
  /\ entry = NoEntry
  /\ pending = <<>>
  /\ clicks = 0
  /\ editor = NoEditor("none")

\* the reducer runs on the current state
Reduce(act) ==
  /\ steps < MaxSteps
  /\ steps' = steps + 1
  /\ prev' = state
  /\ action' = act
  /\ state' = treeReducer(state, act)
  /\ installed' = IF act.type = "SET_TREE" THEN act.payload ELSE installed

\* dispatch(act) of a handler that dispatches one action, taken together
\* with the run of the reducer that follows it
Dispatch(act) ==
  /\ pending = <<>>
  /\ Reduce(act)
  /\ UNCHANGED <<input, result, entry, pending, clicks, editor>>

setTree == \E nodes \in Forests : Dispatch([type |-> "SET_TREE", payload |-> nodes])

toggleExpand == \E id \in Ids : Dispatch([type |-> "TOGGLE_EXPAND", payload |-> id])

renameNodeById ==
  \E id \in Ids, name \in RenameNames :
    Dispatch([type |-> "RENAME_NODE", payload |-> [id |-> id, name |-> name]])

deleteNodeById == \E id \in Ids : Dispatch([type |-> "DELETE_NODE", payload |-> id])

selectNode ==
  \E id \in Ids \cup {Null} : Dispatch([type |-> "SELECT_NODE", payload |-> id])

Next ==
  \/ setTree
  \/ toggleExpand
  \/ renameNodeById
  \/ deleteNodeById
  \/ selectNode

Spec == Init /\ [][Next]_vars

\* selectNode as its callers use it: with null or with the id of a node of
\* the forest of the moment
selectKnownNode ==
  \E id \in {known \in Ids : findNodeById(state.nodes, known) # NoNode} \cup {Null} :
    Dispatch([type |-> "SELECT_NODE", payload |-> id])

NextSelect ==
  \/ setTree
  \/ toggleExpand
  \/ renameNodeById
  \/ deleteNodeById
  \/ selectKnownNode

SpecSelect == Init /\ [][NextSelect]_vars

(***************************************************************************)
(* The page: the input panel over the tree state (src/app/page.tsx and the *)
(* InputPanel of src/components/TreeNode.tsx).                             *)
(***************************************************************************)
\* the texts typed into the panel: three that parse, in both grammars, and
\* four that are rejected, one for each reason
AppTexts ==
  { Join(<<MdLine(0, Folder), MdLine(2, File), MdLine(4, Folder)>>),
    Join(<<Folder, BranchMarker \o <<SP>> \o Folder,
           VerticalBlock \o CornerMarker \o <<SP>> \o File>>),
    Join(<<MdLine(0, File), MdLine(2, Folder), MdLine(4, File)>>),
    <<>>,
    <<Hash, SP, "a">>,
    BranchMarker,
    VerticalBlock \o BranchMarker \o <<SP, "a", "a", "a", "a">> \o BranchMarker }

\* handleInputChange of the panel: the text is replaced and the error of
\* the last parse is cleared
handleInputChange ==
  /\ pending = <<>>
  /\ \E text \in AppTexts \ {input} : input' = text
  /\ result' = NoResult
  /\ UNCHANGED <<state, prev, action, installed, steps, entry, pending, clicks, editor>>

\* handleParse of the page selecting before it sets the tree
onParse_selectFirst(nodes) ==
  (IF Len(nodes) > 0
     THEN <<[type |-> "SELECT_NODE", payload |-> nodes[1].id]>>
     ELSE <<>>)
    \o <<[type |-> "SET_TREE", payload |-> nodes]>>

\* handleParse of the page, handed to the panel as onParse: the actions it
\* dispatches, in their order
onParse(nodes) ==
  <<[type |-> "SET_TREE", payload |-> nodes]>>
    \o (IF Len(nodes) > 0
          THEN <<[type |-> "SELECT_NODE", payload |-> nodes[1].id]>>
          ELSE <<>>)

\* handleParse of the panel calling onParse whatever the result, with no
\* nodes when the parse failed
handleParse_failureClears ==
  /\ pending = <<>>
  /\ steps' = steps + 1
  /\ clicks' = clicks + 1
  /\ \E rnd \in Entropy : result' = parseDirectoryStructure(input, rnd)
  /\ steps + (IF result'.success THEN 3 ELSE 1) <= MaxSteps
  /\ pending' = IF result'.success THEN onParse(result'.nodes) ELSE onParse(<<>>)
  /\ entry' = "parseDirectoryStructure"
  /\ UNCHANGED <<input, state, prev, action, installed, editor>>

\* handleParse of the panel, the click on the Parse button
handleParse ==
  /\ pending = <<>>
  /\ steps' = steps + 1
  /\ clicks' = clicks + 1
  /\ \E rnd \in Entropy : result' = parseDirectoryStructure(input, rnd)
  /\ steps + (IF result'.success THEN 3 ELSE 1) <= MaxSteps
  /\ pending' = IF result'.success THEN onParse(result'.nodes) ELSE <<>>
  /\ entry' = "parseDirectoryStructure"
  /\ UNCHANGED <<input, state, prev, action, installed, editor>>

\* the render after a handler: the reducer runs on the dispatched actions,
\* first dispatched first
render ==
  /\ pending # <<>>
  /\ Reduce(Head(pending))
  /\ pending' = Tail(pending)
  /\ UNCHANGED <<input, result, entry, clicks, editor>>

NextApp ==
  \/ handleInputChange
  \/ handleParse
  \/ render
  \/ toggleExpand
  \/ renameNodeById
  \/ deleteNodeById
  \/ selectNode

SpecApp == Init /\ [][NextApp]_vars

(***************************************************************************)
(* The inline editor of a node of the tree view (TreeNode of               *)
(* src/components/TreeNode.tsx) over the tree state.  The node is named by *)
(* its place among the rendered nodes: the pre-order walk of the forest    *)
(* that enters the expanded folders only.                                  *)
(***************************************************************************)
RECURSIVE Rendered(_)
Rendered(nodes) ==
  IF nodes = <<>> THEN <<>>
  ELSE <<Head(nodes)>>
         \o (IF /\ Head(nodes).type = "folder"
                /\ Head(nodes).isExpanded
                /\ HasChildren(Head(nodes))
             THEN Rendered(Head(nodes).children)
             ELSE <<>>)
         \o Rendered(Tail(nodes))

\* the values typed into the editor: a new name and the name every parsed
\* node has, both padded, nothing, and white space alone
EditValues == { <<SP, "z", SP>>, <<"a", SP>>, <<>>, <<SP, SP>> }

\* handleEditClick, handleDoubleClick and the key F2: the editor of a node
\* opens with the name of the node
handleEditClick ==
  /\ ~editor.isEditing
  /\ pending = <<>>
  /\ \E pos \in 1..Len(Rendered(state.nodes)) :
       editor' = [isEditing |-> TRUE, pos |-> pos,
                  editValue |-> Rendered(state.nodes)[pos].name]
  /\ UNCHANGED <<input, result, state, prev, action, installed, steps, entry, pending, clicks>>

\* onChange of the editor: setEditValue(e.target.value)
setEditValue ==
  /\ editor.isEditing
  /\ \E value \in EditValues \ {editor.editValue} :
       editor' = [editor EXCEPT !.editValue = value]
  /\ UNCHANGED <<input, result, state, prev, action, installed, steps, entry, pending, clicks>>

\* handleEditComplete renaming to whatever was typed, not trimmed and not
\* tested for emptiness
handleEditComplete_noValidation(event) ==
  /\ editor.isEditing
  /\ LET node == Rendered(state.nodes)[editor.pos]
     IN  IF editor.editValue # node.name
           THEN Reduce([type |-> "RENAME_NODE",
                        payload |-> [id |-> node.id, name |-> editor.editValue]])
           ELSE UNCHANGED <<state, prev, action, installed, steps>>
  /\ editor' = NoEditor(event)
  /\ UNCHANGED <<input, result, entry, pending, clicks>>

\* handleEditComplete, reached by the key Enter and by the blur of the
\* editor: onRename is renameNode of the hook
handleEditComplete(event) ==
  /\ editor.isEditing
  /\ LET node == Rendered(state.nodes)[editor.pos]
         trimmedValue == Trim(editor.editValue)
     IN  IF trimmedValue = <<>>
           THEN UNCHANGED <<state, prev, action, installed, steps>>
         ELSE IF trimmedValue # node.name
           THEN Reduce([type |-> "RENAME_NODE",
                        payload |-> [id |-> node.id, name |-> trimmedValue]])
         ELSE UNCHANGED <<state, prev, action, installed, steps>>
  /\ editor' = NoEditor(event)
  /\ UNCHANGED <<input, result, entry, pending, clicks>>

\* handleEditCancel, reached by the key Escape
handleEditCancel ==
  /\ editor.isEditing
  /\ editor' = NoEditor("Escape")
  /\ UNCHANGED <<input, result, state, prev, action, installed, steps, entry, pending, clicks>>

handleInputKeyDown == handleEditComplete("Enter") \/ handleEditCancel

handleBlur == handleEditComplete("blur")

NextEdit ==
  \/ ~editor.isEditing /\ setTree
  \/ handleEditClick
  \/ setEditValue
  \/ handleInputKeyDown
  \/ handleBlur

SpecEdit == Init /\ [][NextEdit]_vars

(***************************************************************************)
(* The exports of src/lib/export.ts and src/lib/formatter.ts over the      *)
(* forest of the tree state.  A script is the sequence of its lines, not   *)
(* yet joined by line feeds; a line that creates something is kept as its  *)
(* command and the path between the quotes, any other line as its text.    *)
(***************************************************************************)
Backslash == "\\"

\* s.replace(/\//g, '\\')
ReplaceSlashes(s) == [i \in 1..Len(s) |-> IF s[i] = Slash THEN Backslash ELSE s[i]]

\* the path as the shell takes it: PowerShell and CMD get backslashes
ShellPath(path, backslashes) == IF backslashes THEN ReplaceSlashes(path) ELSE path

TextLine(text) == [kind |-> "text", text |-> text]
CommandLine(kind, command, path) == [kind |-> kind, command |-> command, path |-> path]

\* collectPaths and the loop over the roots: the paths of the folders and
\* of the files, each list in the order of the walk.  An empty parentPath
\* is falsy, so below a folder of the empty name the path starts afresh.
RECURSIVE collectPaths(_, _)
collectPaths(nodes, parentPath) ==
  IF nodes = <<>> THEN [folders |-> <<>>, files |-> <<>>]
  ELSE LET node == Head(nodes)
           currentPath == IF parentPath # <<>>
                            THEN parentPath \o <<Slash>> \o node.name
                            ELSE node.name
           rest == collectPaths(Tail(nodes), parentPath)
       IN  IF node.type = "folder"
             THEN LET below == IF HasChildren(node)
                                 THEN collectPaths(node.children, currentPath)
                                 ELSE [folders |-> <<>>, files |-> <<>>]
                  IN  [folders |-> <<currentPath>> \o below.folders \o rest.folders,
                       files |-> below.files \o rest.files]
             ELSE [folders |-> rest.folders, files |-> <<currentPath>> \o rest.files]

\* the body the four generators share: the header, the block of the
\* folders, the block of the files, the message
ScriptLines(header, remark, mkdir, touch, message, backslashes, paths) ==
  header
    \o (IF Len(paths.folders) > 0
          THEN <<TextLine(remark \o " Create directories")>>
                 \o [i \in 1..Len(paths.folders) |->
                       CommandLine("folder", mkdir, ShellPath(paths.folders[i], backslashes))]
                 \o <<TextLine("")>>
          ELSE <<>>)
    \o (IF Len(paths.files) > 0
          THEN <<TextLine(remark \o " Create files")>>
                 \o [i \in 1..Len(paths.files) |->
                       CommandLine("file", touch, ShellPath(paths.files[i], backslashes))]
                 \o <<TextLine("")>>
          ELSE <<>>)
    \o <<[kind |-> "message", text |-> message]>>

generatePowerShellScript(paths) ==
  ScriptLines(<<TextLine("# PowerShell script to create directory structure"),
                TextLine("# Run this script in PowerShell"),
                TextLine("")>>,
              "#", "New-Item -ItemType Directory -Force -Path",
              "New-Item -ItemType File -Force -Path",
              "Write-Host \"Directory structure created successfully!\" -ForegroundColor Green",
              TRUE, paths)

generateCmdScript(paths) ==
  ScriptLines(<<TextLine("@echo off"),
                TextLine("REM Batch script to create directory structure"),
                TextLine("REM Run this script in Command Prompt"),
                TextLine("")>>,
              "REM", "mkdir", "type nul >",
              "echo Directory structure created successfully!",
              TRUE, paths)

generateBashScript(paths) ==
  ScriptLines(<<TextLine("#!/bin/bash"),
                TextLine("# Bash script to create directory structure"),
                TextLine("# Run: chmod +x script.sh && ./script.sh"),
                TextLine("")>>,
              "#", "mkdir -p", "touch",
              "echo \"Directory structure created successfully!\"",
              FALSE, paths)

generateZshScript(paths) ==
  ScriptLines(<<TextLine("#!/bin/zsh"),
                TextLine("# Zsh script to create directory structure"),
                TextLine("# Run: chmod +x script.sh && ./script.sh"),
                TextLine("")>>,
              "#", "mkdir -p", "touch",
              "print \"Directory structure created successfully!\"",
              FALSE, paths)

ScriptTypes == {"powershell", "cmd", "bash", "zsh"}

generateScript(nodes, scriptType) ==
  LET paths == collectPaths(nodes, <<>>)
  IN  CASE scriptType = "powershell" -> generatePowerShellScript(paths)
        [] scriptType = "cmd" -> generateCmdScript(paths)
        [] scriptType = "bash" -> generateBashScript(paths)
        [] scriptType = "zsh" -> generateZshScript(paths)

\* the lines of traverse of formatAsMarkdown over a list of siblings
RECURSIVE MarkdownLinesOf(_, _, _)
MarkdownLinesOf(nodes, currentIndent, indent) ==
  IF nodes = <<>> THEN <<>>
  ELSE LET node == Head(nodes)
           prefix == IF currentIndent # <<>> THEN currentIndent \o <<Dash, SP>>
                     ELSE <<Dash, SP>>
           suffix == IF node.type = "folder" THEN <<Slash>> ELSE <<>>
       IN  <<prefix \o node.name \o suffix>>
             \o (IF HasChildren(node) /\ Len(node.children) > 0
                   THEN MarkdownLinesOf(node.children, currentIndent \o indent, indent)
                   ELSE <<>>)
             \o MarkdownLinesOf(Tail(nodes), currentIndent, indent)

\* the children written one space deeper than their parent, whatever the
\* indent
formatAsMarkdown_oneSpace(nodes, indent) == Join(MarkdownLinesOf(nodes, <<>>, <<SP>>))

formatAsMarkdown(nodes, indent) == Join(MarkdownLinesOf(nodes, <<>>, indent))

\* the lines of traverse of formatAsAscii over the siblings from the i-th on
RECURSIVE AsciiLinesOf(_, _, _)
AsciiLinesOf(nodes, i, prefix) ==
  IF i > Len(nodes) THEN <<>>
  ELSE LET node == nodes[i]
           isLast == i = Len(nodes)
           connector == (IF isLast THEN CornerMarker ELSE BranchMarker) \o <<SP>>
           suffix == IF node.type = "folder" THEN <<Slash>> ELSE <<>>
       IN  <<prefix \o connector \o node.name \o suffix>>
             \o (IF HasChildren(node) /\ Len(node.children) > 0
                   THEN AsciiLinesOf(node.children, 1,
                                     prefix \o (IF isLast THEN BlankBlock ELSE VerticalBlock))
                   ELSE <<>>)
             \o AsciiLinesOf(nodes, i + 1, prefix)

formatAsAscii(nodes) ==
  Join(IF Len(nodes) = 1
         THEN LET node == nodes[1]
                  suffix == IF node.type = "folder" THEN <<Slash>> ELSE <<>>
              IN  <<node.name \o suffix>>
                    \o (IF HasChildren(node) /\ Len(node.children) > 0
                          THEN AsciiLinesOf(node.children, 1, <<>>)
                          ELSE <<>>)
         ELSE AsciiLinesOf(nodes, 1, <<>>))

\* the indent of the options is left at its default, two spaces
formatTreeToText(nodes, style) ==
  IF Len(nodes) = 0 THEN <<>>
  ELSE IF style = "ascii" THEN formatAsAscii(nodes)
  ELSE formatAsMarkdown(nodes, <<SP, SP>>)

FormatStyles == {"markdown", "ascii"}

\* lines whose names hold a space and a hyphen
SpacedLines ==
  { <<Dash, SP, "a", SP, "b", Slash>>,
    <<SP, SP, Dash, SP, Dash, Slash>>,
    <<SP, SP, SP, SP, Dash, SP, "a", SP, "b">> }

ExportTexts == Texts \cup NamelessTexts \cup TextsOf(SpacedLines)

\* the forests that are exported: the empty one of the initial state and
\* those the parser gives
ExportForests ==
  {<<>>} \cup {r.nodes : r \in {x \in {parseDirectoryStructure(t, FreshDraws) :
                                         t \in ExportTexts} : x.success}}

InitExport ==
  /\ input = <<>>
  /\ result = NoResult
  /\ \E nodes \in ExportForests : state = [nodes |-> nodes, selectedNodeId |-> Null]
  /\ prev = initialState
  /\ action = NoAction
  /\ installed = <<>>
  /\ steps = 0
  /\ entry = NoEntry
  /\ pending = <<>>
  /\ clicks = 0
  /\ editor = NoEditor("none")

\* copyAsText up to the clipboard
copyAsText ==
  /\ result = NoResult
  /\ \E style \in FormatStyles :
       result' = [style |-> style, text |-> formatTreeToText(state.nodes, style)]
  /\ entry' = "copyAsText"
  /\ UNCHANGED <<input, state, prev, action, installed, steps, pending, clicks, editor>>

\* copyAsScript up to the clipboard
copyAsScript ==
  /\ result = NoResult
  /\ \E scriptType \in ScriptTypes :
       result' = [scriptType |-> scriptType,
                  script |-> generateScript(state.nodes, scriptType)]
  /\ entry' = "copyAsScript"
  /\ UNCHANGED <<input, state, prev, action, installed, steps, pending, clicks, editor>>

NextExport == copyAsText \/ copyAsScript

SpecExport == InitExport /\ [][NextExport]_vars

(***************************************************************************)
(* Vocabulary of the properties.                                           *)
(***************************************************************************)
\* the nodes of a forest in depth-first pre-order
RECURSIVE Preorder(_)
Preorder(nodes) ==
  IF nodes = <<>> THEN <<>>
  ELSE <<Head(nodes)>>
         \o (IF HasChildren(Head(nodes)) THEN Preorder(Head(nodes).children) ELSE <<>>)
         \o Preorder(Tail(nodes))

IdSet(nodes) == {Preorder(nodes)[i].id : i \in 1..Len(Preorder(nodes))}

DistinctIds(nodes) == Cardinality(IdSet(nodes)) = Len(Preorder(nodes))

\* what a node is by itself: its fields, and which nodes its children are
Own(node) ==
  [id |-> node.id, name |-> node.name, type |-> node.type, depth |-> node.depth,
   isExpanded |-> node.isExpanded,
   hasChildren |-> HasChildren(node),
   kids |-> IF HasChildren(node)
              THEN [i \in 1..Len(node.children) |-> node.children[i].id]
              ELSE <<>>]

\* every node below `nodes` is one level deeper than its parent, whose
\* depth is d - 1
RECURSIVE DepthsFrom(_, _)
DepthsFrom(nodes, d) ==
  \A i \in 1..Len(nodes) :
    /\ nodes[i].depth = d
    /\ HasChildren(nodes[i]) => DepthsFrom(nodes[i].children, d + 1)

\* a is b with some elements left out
RECURSIVE IsSubseq(_, _)
IsSubseq(a, b) ==
  IF a = <<>> THEN TRUE
  ELSE IF b = <<>> THEN FALSE
  ELSE IF Head(a) = Head(b) THEN IsSubseq(Tail(a), Tail(b))
  ELSE IsSubseq(a, Tail(b))

\* id, kind and depth of every node, in pre-order
Skeleton(nodes) ==
  [i \in 1..Len(Preorder(nodes)) |->
     <<Preorder(nodes)[i].id, Preorder(nodes)[i].type, Preorder(nodes)[i].depth>>]

\* a file is a node without the field children, a folder one with it
ShapeOK(nodes) ==
  \A i \in 1..Len(Preorder(nodes)) :
    LET node == Preorder(nodes)[i]
    IN  /\ node.type \in {"file", "folder"}
        /\ node.type = "file" => ~HasChildren(node)
        /\ node.type = "folder" => HasChildren(node)

\* for every node in pre-order, the pre-order position of its parent, 0 for
\* a root; `before` nodes precede `nodes` in the walk
RECURSIVE ParentsFrom(_, _, _)
ParentsFrom(nodes, parent, before) ==
  IF nodes = <<>> THEN <<>>
  ELSE LET below == IF HasChildren(Head(nodes))
                      THEN ParentsFrom(Head(nodes).children, before + 1, before + 1)
                      ELSE <<>>
       IN  <<parent>> \o below \o ParentsFrom(Tail(nodes), parent, before + 1 + Len(below))

\* the folder line that encloses line i of a markdown text and is still
\* open there: the last folder line before i from which on every line, i
\* included, is indented deeper; 0 when there is none
EnclosingFolderLine(lines, i) ==
  LET open == {j \in 1..i - 1 :
                 /\ EndsWith(Trim(lines[j]), <<Slash>>)
                 /\ \A k \in j + 1..i : LeadingSpaces(lines[k]) > LeadingSpaces(lines[j])}
  IN  IF open = {} THEN 0 ELSE CHOOSE j \in open : \A k \in open : k <= j

IsFolderId(nodes, id) ==
  LET node == findNodeById(nodes, id)
  IN  node # NoNode /\ node.type = "folder"

IsFileId(nodes, id) ==
  LET node == findNodeById(nodes, id)
  IN  node # NoNode /\ node.type = "file"

(***************************************************************************)
(* Properties of the parser, checked under SpecParse.                      *)
(***************************************************************************)
\* C1: in the forest of every successful parse every top-level node has
\* depth 0 and every other node has the depth of its parent plus one.
C1_ParsedDepths == result # NoResult /\ result.success => DepthsFrom(result.nodes, 0)

\* C10: no two nodes of the forest of a successful parse have the same id.
C10_ParsedIdsDistinct == result # NoResult /\ result.success => DistinctIds(result.nodes)

\* C15: '- src/' followed by '  - index.ts' parses to a forest of one
\* root, the folder 'src', whose only child is the file 'index.ts', with
\* depth 1.
C15_MarkdownExample ==
  input = MarkdownExample /\ result # NoResult =>
    /\ result.success
    /\ Len(result.nodes) = 1
    /\ result.nodes[1].type = "folder"
    /\ result.nodes[1].name = <<"s", "r", "c">>
    /\ Len(result.nodes[1].children) = 1
    /\ result.nodes[1].children[1].type = "file"
    /\ result.nodes[1].children[1].name = <<"i", "n", "d", "e", "x", ".", "t", "s">>
    /\ result.nodes[1].children[1].depth = 1

\* C16: the four lines 'project/', branch 'src/', vertical block and corner
\* 'index.ts', corner 'package.json' parse to a forest of one root, the
\* folder 'project', whose children are the folder 'src', which holds the
\* file 'index.ts' and nothing else, and the file 'package.json'.
C16_AsciiExample ==
  input = AsciiExample /\ result # NoResult =>
    /\ result.success
    /\ Len(result.nodes) = 1
    /\ LET project == result.nodes[1]
       IN  /\ project.type = "folder"
           /\ project.name = <<"p", "r", "o", "j", "e", "c", "t">>
           /\ Len(project.children) = 2
           /\ project.children[1].type = "folder"
           /\ project.children[1].name = <<"s", "r", "c">>
           /\ Len(project.children[1].children) = 1
           /\ project.children[1].children[1].type = "file"
           /\ project.children[1].children[1].name = <<"i", "n", "d", "e", "x", ".", "t", "s">>
           /\ project.children[2].type = "file"
           /\ project.children[2].name =
                <<"p", "a", "c", "k", "a", "g", "e", ".", "j", "s", "o", "n">>

C16_Witness ==
  /\ input = AsciiExample
  /\ result # NoResult
  /\ result.success
  /\ Len(Preorder(result.nodes)) = 4
  /\ Preorder(result.nodes)[4].name[1] = "p"
  /\ Cardinality(IdSet(result.nodes)) = MaxLines

\* C17: every node of the forest of a successful parse has a name that is
\* not empty, the nodes of lines whose name part is '/' alone included.
C17_ParsedNamesNotEmpty ==
  result # NoResult /\ result.success =>
    \A i \in 1..Len(Preorder(result.nodes)) : Preorder(result.nodes)[i].name # <<>>

\* the name a line of the sanitized text gives its node: what the grammar
\* leaves of the line, without the '/' that marks a folder
NameOfLine(line, ascii) ==
  LET name == IF ascii THEN Trim(ScanPrefix(line, 0, 0, FALSE).cleanLine)
                       ELSE MarkdownName(line)
  IN  IF EndsWith(name, <<Slash>>) THEN SubSeq(name, 1, Len(name) - 1) ELSE name

\* the line gives a node: the ASCII grammar skips a line of which nothing
\* is left
GivesNode(line, ascii) ==
  ~ascii \/ Trim(ScanPrefix(line, 0, 0, FALSE).cleanLine) # <<>>

\* C19: the pre-order walk of the forest of a successful parse visits the
\* nodes in the order of their source lines: the i-th node visited has the
\* name of the i-th line that gives a node and the id of the i-th call of
\* generateId.
C19_PreorderIsLineOrder ==
  result # NoResult /\ result.success =>
    LET san == sanitizeInput(input)
        ascii == \E i \in 1..Len(san) : san[i] \in {Tee, Corner, Vbar, Hbar}
        lines == SelectSeq(Split(san), LAMBDA line : GivesNode(line, ascii))
        walk == Preorder(result.nodes)
    IN  /\ Len(walk) = Len(lines)
        /\ \A i \in 1..Len(walk) : walk[i].name = NameOfLine(lines[i], ascii)
        /\ \E rnd \in Entropy : \A i \in 1..Len(walk) : walk[i].id = GenerateId(rnd[i])

C19_Witness ==
  /\ result # NoResult
  /\ result.success
  /\ Len(Preorder(result.nodes)) = 3
  /\ DistinctIds(result.nodes)
  /\ Len(result.nodes) = 1
  /\ Len(result.nodes[1].children) = 2
  /\ result.nodes[1].name # result.nodes[1].children[1].name
  /\ Preorder(result.nodes)[3].id = GenerateId(3)

\* the text holds one of the four tree characters
HasTreeChar(text) == \E i \in 1..Len(text) : text[i] \in {Tee, Corner, Vbar, Hbar}

\* the text has a line that starts with the markdown bullet
HasBulletLine(text) ==
  \E i \in 1..Len(Split(text)) : StartsWith(Trim(Split(text)[i]), <<Dash>>)

\* C12: an input whose sanitized text holds a tree character is parsed by
\* parseAscii, lines that start with the bullet '-' or not; the sanitized
\* text goes to parseMarkdown only when it holds no tree character.
C12_TreeCharGoesToAscii ==
  LET san == sanitizeInput(input)
  IN  result # NoResult /\ Trim(san) # <<>> =>
        IF HasTreeChar(san)
          THEN \E rnd \in Entropy : result = parseAscii(san, rnd)
          ELSE \E rnd \in Entropy : result = parseMarkdown(san, rnd)

C12_Witness ==
  LET san == sanitizeInput(input)
  IN  /\ result # NoResult
      /\ result.success
      /\ HasTreeChar(san)
      /\ StartsWith(san, <<Dash>>)
      /\ Len(Split(san)) >= 3
      /\ HasBulletLine(Join(Tail(Split(san))))
      /\ \E rnd \in Entropy : result = parseAscii(san, rnd)
      /\ \A rnd \in Entropy : result # parseMarkdown(san, rnd)

\* the reasons of src/lib/parser.ts
EmptyReason == "Input is empty. Please provide a directory structure."
CommentsReason ==
  "Input contains only comments or whitespace. Please provide a valid directory structure."
NoStructureReason == "No valid directory structure found in input"

\* the reason holds the word 'empty', as the test of the empty input in
\* src/__tests__/integration/parsing-rendering.test.tsx asks; of the
\* reasons of parser.ts this one does
MentionsEmptiness(reason) == reason \in {EmptyReason}

\* C13 as stated: parseMarkdown on the empty or an all-white-space text and
\* parseDirectoryStructure on the empty text both reject with a reason
\* that mentions emptiness.
C13_BlankReasonMentionsEmptiness ==
  /\ result # NoResult
  /\ \/ entry = "parseMarkdown" /\ Trim(input) = <<>>
     \/ entry = "parseDirectoryStructure" /\ input = <<>>
  => ~result.success /\ MentionsEmptiness(result.error)

\* C13 amended: both reject; parseDirectoryStructure on the empty or an
\* all-white-space text gives the reason 'Input is empty...', which
\* mentions emptiness, and parseMarkdown on such a text gives the reason
\* 'No valid directory structure found in input', which does not.
C13_BlankRejected ==
  result # NoResult /\ Trim(input) = <<>> =>
    /\ ~result.success
    /\ entry = "parseDirectoryStructure" =>
         result.error = EmptyReason /\ MentionsEmptiness(result.error)
    /\ entry = "parseMarkdown" =>
         result.error = NoStructureReason /\ ~MentionsEmptiness(result.error)

C13_Witness ==
  /\ entry = "parseMarkdown"
  /\ Len(input) >= 2
  /\ Trim(input) = <<>>
  /\ Includes(input, NL)
  /\ result # NoResult
  /\ ~result.success
  /\ result.error = NoStructureReason

\* no character of the line, once its comment is cut off, can be part of a
\* name: the line is blank, a comment, or tree characters and white space
IsDecoration(line) ==
  LET text == IF StartsWith(Trim(line), <<Hash>>) THEN <<>>
              ELSE IF \E i \in 1..Len(line) : line[i] = Hash
                THEN SubSeq(line, 1, (CHOOSE i \in 1..Len(line) :
                                        /\ line[i] = Hash
                                        /\ \A j \in 1..i - 1 : line[j] # Hash) - 1)
              ELSE line
  IN  \A i \in 1..Len(text) : ~IsContentChar(text[i])

\* every line is blank or a comment
IsCommentOnly(text) ==
  \A i \in 1..Len(Split(text)) :
    Trim(Split(text)[i]) = <<>> \/ StartsWith(Trim(Split(text)[i]), <<Hash>>)

AllDecoration(text) == \A i \in 1..Len(Split(text)) : IsDecoration(Split(text)[i])

\* C20 as stated: an input that is neither empty nor comments alone and
\* gives no node, one whose lines are all filtered out as decoration
\* included, is rejected with the reason 'No valid directory structure
\* found in input'.
C20_NoNodesReason ==
  /\ result # NoResult
  /\ ~result.success
  /\ Trim(input) # <<>>
  /\ ~IsCommentOnly(input)
  => result.error = NoStructureReason

\* C20 amended: a rejected input has the reason 'Input is empty...' when
\* it is blank, 'Input contains only comments or whitespace...' when it
\* is not blank and all its lines are filtered out, as comments or as
\* decoration, and 'No valid directory structure found in input' when
\* lines are left and they give no node; an input whose lines are all
\* filtered out is always rejected.
C20_RejectionReasons ==
  result # NoResult =>
    /\ AllDecoration(input) => ~result.success
    /\ ~result.success =>
         result.error = IF Trim(input) = <<>> THEN EmptyReason
                        ELSE IF AllDecoration(input) THEN CommentsReason
                        ELSE NoStructureReason

C20_Witness ==
  /\ result # NoResult
  /\ ~result.success
  /\ result.error = NoStructureReason
  /\ ~AllDecoration(input)
  /\ HasTreeChar(input)
  /\ Len(Split(input)) >= 2

\* name, kind and parent of every node, in pre-order: the shape of the
\* forest with its names, kinds and sibling order
ShapeOf(nodes) ==
  [i \in 1..Len(Preorder(nodes)) |->
     <<Preorder(nodes)[i].name, Preorder(nodes)[i].type, ParentsFrom(nodes, 0, 0)[i]>>]

\* the text with the indentation of every line made `factor` times as wide
Widen(text, factor) ==
  LET lines == Split(text)
  IN  Join([i \in 1..Len(lines) |->
              Spaces(factor * LeadingSpaces(lines[i])) \o TrimStart(lines[i])])

\* C22: a markdown text and the text with every indentation made the same
\* number of times as wide are both rejected, or parse to forests of the
\* same shape, names, kinds and sibling order.
C22_WideningKeepsShape ==
  result # NoResult /\ ~HasTreeChar(input) =>
    \A factor \in 2..MaxFactor :
      LET wide == parseDirectoryStructure(Widen(input, factor), FreshDraws)
      IN  /\ wide.success = result.success
          /\ result.success => ShapeOf(wide.nodes) = ShapeOf(result.nodes)

C22_Witness ==
  /\ result # NoResult
  /\ result.success
  /\ ~HasTreeChar(input)
  /\ Len(Split(input)) = 3
  /\ LeadingSpaces(Split(input)[2]) = 1
  /\ LeadingSpaces(Split(input)[3]) = 3
  /\ ParentsFrom(result.nodes, 0, 0) = <<0, 1, 2>>
  /\ ShapeOf(parseDirectoryStructure(Widen(input, 2), FreshDraws).nodes)
       = ShapeOf(result.nodes)

(***************************************************************************)
(* Properties of the reducer, checked under Spec.  An id names a node only *)
(* in a forest whose ids are pairwise distinct, so the properties that     *)
(* speak of the node with an id are stated for such forests.               *)
(***************************************************************************)
\* C2: after Delete(id) neither the node with that id nor any node of its
\* subtree is found by findNodeById, and every other node of the forest
\* still is; no other id appears.
C2_DeleteRemovesSubtree ==
  action.type = "DELETE_NODE" /\ DistinctIds(prev.nodes) =>
    LET target == findNodeById(prev.nodes, action.payload)
        removed == IF target = NoNode THEN {} ELSE IdSet(<<target>>)
    IN  /\ \A id \in IdSet(prev.nodes) :
             (findNodeById(state.nodes, id) = NoNode) <=> (id \in removed)
        /\ IdSet(state.nodes) = IdSet(prev.nodes) \ removed

C2_Witness ==
  /\ action.type = "DELETE_NODE"
  /\ DistinctIds(prev.nodes)
  /\ LET target == findNodeById(prev.nodes, action.payload)
     IN  /\ target # NoNode
         /\ target.depth > 0
         /\ HasChildren(target)
         /\ Len(target.children) > 0
  /\ state.nodes # <<>>

\* C3: Delete(id) makes selectedNodeId null when it was id and leaves it as
\* it was for every other id, whether or not a node has that id.
C3_DeleteSelection ==
  action.type = "DELETE_NODE" =>
    state.selectedNodeId =
      IF prev.selectedNodeId = action.payload THEN Null ELSE prev.selectedNodeId

C3_Witness ==
  /\ action.type = "DELETE_NODE"
  /\ prev.selectedNodeId = action.payload
  /\ findNodeById(prev.nodes, action.payload) # NoNode
  /\ state.selectedNodeId = Null

\* C4: ToggleExpand(id) on the id of a folder negates isExpanded of that
\* node; every other field of it, every other node and selectedNodeId are
\* as before.
C4_ToggleFlipsOneFolder ==
  /\ action.type = "TOGGLE_EXPAND"
  /\ DistinctIds(prev.nodes)
  /\ IsFolderId(prev.nodes, action.payload)
  => LET before == Preorder(prev.nodes)
         after == Preorder(state.nodes)
     IN  /\ Len(after) = Len(before)
         /\ \A i \in 1..Len(before) :
              Own(after[i]) =
                IF before[i].id = action.payload
                  THEN [Own(before[i]) EXCEPT !.isExpanded = ~@]
                  ELSE Own(before[i])
         /\ state.selectedNodeId = prev.selectedNodeId

C4_Witness ==
  /\ action.type = "TOGGLE_EXPAND"
  /\ DistinctIds(prev.nodes)
  /\ IsFolderId(prev.nodes, action.payload)
  /\ findNodeById(prev.nodes, action.payload).depth > 0
  /\ Len(Preorder(prev.nodes)) = 3
  /\ prev.selectedNodeId # Null
  /\ ~findNodeById(state.nodes, action.payload).isExpanded

\* C5: ToggleExpand(id) on the id of a file, or of no node, leaves the
\* whole state as it was.
C5_ToggleMissIsNoOp ==
  /\ action.type = "TOGGLE_EXPAND"
  /\ DistinctIds(prev.nodes)
  /\ ~IsFolderId(prev.nodes, action.payload)
  => state = prev

C5_Witness ==
  /\ action.type = "TOGGLE_EXPAND"
  /\ DistinctIds(prev.nodes)
  /\ IsFileId(prev.nodes, action.payload)
  /\ findNodeById(prev.nodes, action.payload).depth > 0
  /\ state = prev

\* C6: Rename(id, name) gives the node with that id the name, file or
\* folder alike; every other field of it, every other node and
\* selectedNodeId are as before; when no node has the id the state is as
\* before.
C6_RenameSetsOneName ==
  action.type = "RENAME_NODE" /\ DistinctIds(prev.nodes) =>
    LET before == Preorder(prev.nodes)
        after == Preorder(state.nodes)
    IN  /\ Len(after) = Len(before)
        /\ \A i \in 1..Len(before) :
             Own(after[i]) =
               IF before[i].id = action.payload.id
                 THEN [Own(before[i]) EXCEPT !.name = action.payload.name]
                 ELSE Own(before[i])
        /\ state.selectedNodeId = prev.selectedNodeId
        /\ findNodeById(prev.nodes, action.payload.id) = NoNode => state = prev

C6_Witness ==
  /\ action.type = "RENAME_NODE"
  /\ DistinctIds(prev.nodes)
  /\ IsFolderId(prev.nodes, action.payload.id)
  /\ findNodeById(prev.nodes, action.payload.id).depth > 0
  /\ findNodeById(prev.nodes, action.payload.id).name # action.payload.name
  /\ findNodeById(state.nodes, action.payload.id).name = action.payload.name

\* C7: Rename(id, n) of a node already named n leaves the forest as it
\* was, and a Rename applied again to the state it produced changes
\* nothing.
C7_RenameIdempotent ==
  action.type = "RENAME_NODE" =>
    /\ treeReducer(state, action) = state
    /\ LET node == findNodeById(prev.nodes, action.payload.id)
       IN  /\ DistinctIds(prev.nodes)
           /\ node # NoNode
           /\ node.name = action.payload.name
           => state.nodes = prev.nodes

C7_Witness ==
  /\ action.type = "RENAME_NODE"
  /\ DistinctIds(prev.nodes)
  /\ LET node == findNodeById(prev.nodes, action.payload.id)
     IN  /\ node # NoNode
         /\ node.name = action.payload.name
         /\ node.name = <<"z">>
         /\ ~node.isExpanded
  /\ state.nodes = prev.nodes

\* C8: SET_TREE makes the forest its payload and selectedNodeId null,
\* whatever the forest and the selection were.
C8_SetTreeReplaces ==
  action.type = "SET_TREE" =>
    state.nodes = action.payload /\ state.selectedNodeId = Null

C8_Witness ==
  /\ action.type = "SET_TREE"
  /\ prev.nodes # <<>>
  /\ prev.nodes # action.payload
  /\ prev.selectedNodeId # Null
  /\ state.nodes = action.payload
  /\ state.selectedNodeId = Null

\* C9: whatever was dispatched since the forest was installed, the nodes of
\* the forest are nodes of the installed one with the id, kind and depth
\* they had, in the order they had, and their ids are pairwise distinct if
\* the installed ones were.
C9_EditsKeepIdentity ==
  /\ IsSubseq(Skeleton(state.nodes), Skeleton(installed))
  /\ DistinctIds(installed) => DistinctIds(state.nodes)

C9_Witness ==
  /\ steps >= 4
  /\ DistinctIds(installed)
  /\ state.nodes # <<>>
  /\ Len(Preorder(state.nodes)) < Len(Preorder(installed))
  /\ \E i \in 1..Len(Preorder(state.nodes)) :
       /\ Preorder(state.nodes)[i].name = <<"z">>
       /\ ~Preorder(state.nodes)[i].isExpanded

\* C11: a ToggleExpand(id) on the id of a folder followed at once by a
\* second ToggleExpand(id) leaves the whole state as it was before the
\* first of the two.
C11_ToggleTwiceRestores ==
  [][(/\ action.type = "TOGGLE_EXPAND"
      /\ IsFolderId(prev.nodes, action.payload)
      /\ action' = action)
     => state' = prev]_vars

C11_Witness ==
  /\ action.type = "TOGGLE_EXPAND"
  /\ IsFolderId(state.nodes, action.payload)
  /\ findNodeById(state.nodes, action.payload).depth > 0
  /\ state.nodes = installed
  /\ prev.nodes # installed
  /\ state.selectedNodeId # Null
  /\ treeReducer(prev, action) = state
  /\ treeReducer(state, action) = prev

(***************************************************************************)
(* Properties of the page, checked under SpecApp.                          *)
(***************************************************************************)
\* C14: a click on Parse whose parse is rejected dispatches nothing: the
\* tree state after it is the one before it, forest and selectedNodeId
\* alike, no action is left to be reduced, and an action is only ever
\* waiting to be reduced after a parse that succeeded.
C14_RejectedParseChangesNothing ==
  [][clicks' = clicks + 1 =>
       /\ ~result'.success =>
            /\ state' = state
            /\ pending' = <<>>
            /\ action' = action
       /\ pending' # <<>> => result'.success /\ pending'[1].payload = result'.nodes]_vars

C14_Witness ==
  /\ clicks = 2
  /\ result # NoResult
  /\ ~result.success
  /\ result.error = CommentsReason
  /\ state.nodes # <<>>
  /\ state.nodes = installed
  /\ state.selectedNodeId = state.nodes[1].id
  /\ pending = <<>>

\* C18: in the forest of every successful parse, in every forest waiting to
\* be installed and in every state the edits reach, a file has no field
\* children and a folder has one; every line of a markdown text gives a
\* node, whose parent is the nearest folder line that encloses it and is
\* still open, or no node when there is none, so a line indented below a
\* file line is never attached to the file.
C18_FilesHaveNoChildren ==
  /\ ShapeOK(state.nodes)
  /\ \A i \in 1..Len(pending) :
       pending[i].type = "SET_TREE" => ShapeOK(pending[i].payload)
  /\ result # NoResult /\ result.success =>
       /\ ShapeOK(result.nodes)
       /\ ~HasTreeChar(sanitizeInput(input)) =>
            LET lines == Split(sanitizeInput(input))
            IN  ParentsFrom(result.nodes, 0, 0)
                  = [i \in 1..Len(lines) |-> EnclosingFolderLine(lines, i)]

C18_Witness ==
  /\ result # NoResult
  /\ result.success
  /\ ~HasTreeChar(input)
  /\ LET lines == Split(input)
     IN  /\ Len(lines) = 3
         /\ ~EndsWith(lines[2], <<Slash>>)
         /\ LeadingSpaces(lines[3]) > LeadingSpaces(lines[2])
         /\ ParentsFrom(result.nodes, 0, 0) = <<0, 1, 1>>
  /\ installed = result.nodes
  /\ state.nodes # installed
  /\ Len(Preorder(state.nodes)) = 3
  /\ action.type = "RENAME_NODE"

(***************************************************************************)
(* Properties of sanitizeInput, checked under SpecSanitize.                *)
(***************************************************************************)
\* the part of a line before its first '#'
RECURSIVE BeforeHash(_)
BeforeHash(line) ==
  IF line = <<>> \/ Head(line) = Hash THEN <<>>
  ELSE <<Head(line)>> \o BeforeHash(Tail(line))

\* the lines that survive, in their order, when the characters of `content`
\* are the ones that make a line more than decoration
Surviving(text, content) ==
  LET lines == Split(text)
      cut == [i \in 1..Len(lines) |->
                IF StartsWith(TrimStart(lines[i]), <<Hash>>) THEN <<>>
                ELSE BeforeHash(lines[i])]
  IN  SelectSeq(cut, LAMBDA line : \E i \in 1..Len(line) : line[i] \in content)

Alphanumerics ==
  {"a", "b", "c", "d", "e", "g", "i", "j", "k", "n", "o", "p", "r", "s", "t", "x", "z"}

\* C21 as stated: the lines of the output are the lines of the input that
\* do not start with '#' after trimming, each cut at its first '#', that
\* hold an alphanumeric character, '/', '-' or '.', in their order and with
\* their indentation; the output holds no '#'.
C21_SanitizeAsStated ==
  result # NoResult =>
    /\ result.text = Join(Surviving(input, Alphanumerics \cup {Slash, Dash, "."}))
    /\ ~Includes(result.text, Hash)

\* C21 amended: the same, with '_' among the characters that keep a line.
C21_Sanitize ==
  result # NoResult =>
    /\ result.text = Join(Surviving(input, Alphanumerics \cup {Slash, Dash, ".", "_"}))
    /\ ~Includes(result.text, Hash)

C21_Witness ==
  /\ result # NoResult
  /\ Len(Split(input)) = 3
  /\ Len(Split(result.text)) = 2
  /\ StartsWith(input, <<Hash>>)
  /\ Includes(Split(input)[2], Hash)
  /\ StartsWith(result.text, <<SP, SP, Dash>>)
  /\ Split(result.text)[2] = <<"_">>

\* C23: a click on Parse whose parse succeeds dispatches SET_TREE with the
\* forest and then SELECT_NODE with the id of its first root; the reducer
\* takes the dispatched actions one by one in that order, each on the
\* state the one before left; when the last is reduced the state has the
\* forest of the parse and selectedNodeId is the id of its first root.
C23_DispatchOrder ==
  [][/\ clicks' = clicks + 1 /\ result'.success =>
          /\ Len(pending') = 2
          /\ pending'[1] = [type |-> "SET_TREE", payload |-> result'.nodes]
          /\ pending'[2] = [type |-> "SELECT_NODE", payload |-> result'.nodes[1].id]
     /\ pending # <<>> =>
          /\ state' = treeReducer(state, pending[1])
          /\ action' = pending[1]
          /\ pending' = Tail(pending)
          /\ pending' = <<>> =>
               /\ state'.nodes = result.nodes
               /\ state'.selectedNodeId = result.nodes[1].id
               /\ state'.selectedNodeId # Null]_vars

C23_Witness ==
  /\ clicks = 1
  /\ steps = 3
  /\ pending = <<>>
  /\ action.type = "SELECT_NODE"
  /\ result # NoResult
  /\ result.success
  /\ prev.selectedNodeId = Null
  /\ prev.nodes = result.nodes
  /\ state.nodes = result.nodes
  /\ state.nodes[1].type = "file"
  /\ Len(state.nodes) = 2
  /\ state.selectedNodeId = state.nodes[1].id

(***************************************************************************)
(* Properties of the inline editor, checked under SpecEdit.                *)
(***************************************************************************)
\* C24: the editor closes with a RENAME_NODE of its node to the trimmed
\* value when it is closed by Enter or blur and the trimmed value is
\* neither empty nor the name of the node; closed in any other way, with
\* an empty or all-white-space value, with the name the node has, or by
\* Escape, it dispatches nothing and the tree state, the name of the node
\* in it, is as before; nothing is dispatched while the editor is open,
\* and a RENAME_NODE is dispatched at no other moment.
C24_EditorRenameGuard ==
  [][/\ editor.isEditing /\ ~editor'.isEditing =>
          LET node == Preorder(state.nodes)[editor.pos]
              value == Trim(editor.editValue)
          IN  IF editor'.event \in {"Enter", "blur"} /\ value # <<>> /\ value # node.name
                THEN /\ action' = [type |-> "RENAME_NODE",
                                    payload |-> [id |-> node.id, name |-> value]]
                     /\ steps' = steps + 1
                     /\ state' = treeReducer(state, action')
                     /\ DistinctIds(state.nodes) =>
                          Preorder(state'.nodes)[editor.pos].name = value
                ELSE /\ state' = state
                     /\ steps' = steps
                     /\ action' = action
     /\ editor.isEditing /\ editor'.isEditing => state' = state /\ steps' = steps
     /\ steps' # steps /\ action'.type = "RENAME_NODE" =>
          editor.isEditing /\ ~editor'.isEditing]_vars

C24_Witness ==
  /\ ~editor.isEditing
  /\ editor.event = "Escape"
  /\ action.type = "RENAME_NODE"
  /\ action.payload.name = <<"z">>
  /\ state.nodes # <<>>
  /\ findNodeById(state.nodes, action.payload.id).name = <<"z">>
  /\ findNodeById(state.nodes, action.payload.id).depth > 0

(***************************************************************************)
(* Properties of the ASCII grammar (SpecParse).                            *)
(***************************************************************************)
\* the line holds a branch or a corner connector
HasConnector(line) ==
  \E p \in 0..Len(line) - 3 : Substring(line, p, p + 3) \in {BranchMarker, CornerMarker}

\* the line begins with a continuation block
StartsWithBlock(line) == Substring(line, 0, 4) \in {VerticalBlock, BlankBlock}

\* the forest is one folder of depth 0 with the name of the first line, and
\* every line that gives a node has its node in it
OneBareRoot(lines) ==
  /\ Len(result.nodes) = 1
  /\ result.nodes[1].type = "folder"
  /\ result.nodes[1].depth = 0
  /\ result.nodes[1].name = SubSeq(Trim(lines[1]), 1, Len(Trim(lines[1])) - 1)
  /\ Len(Preorder(result.nodes))
       = Len(SelectSeq(lines, LAMBDA line : GivesNode(line, TRUE)))

\* C27 as it is stated: when the first line of a text of the ASCII grammar
\* has no connector and ends with '/', it is the only root of the forest, a
\* folder of depth 0, and every later line is below it.
C27_BareRootAsStated ==
  LET lines == Split(sanitizeInput(input))
  IN  result # NoResult /\ result.success /\ HasTreeChar(sanitizeInput(input))
        /\ ~HasConnector(lines[1]) /\ EndsWith(Trim(lines[1]), <<Slash>>)
      => OneBareRoot(lines)

\* C27: the same of a first line that has no connector and does not begin
\* with a continuation block either.
C27_BareRoot ==
  LET lines == Split(sanitizeInput(input))
  IN  result # NoResult /\ result.success /\ HasTreeChar(sanitizeInput(input))
        /\ ~HasConnector(lines[1]) /\ ~StartsWithBlock(lines[1])
        /\ EndsWith(Trim(lines[1]), <<Slash>>)
      => OneBareRoot(lines)

\* a bare folder line, a folder on a marker line and a second marker line
\* of the same level: both are below the root
C27_Witness ==
  /\ result # NoResult /\ result.success
  /\ Split(input)[1] = <<"a", Slash>>
  /\ Len(Split(input)) = 3
  /\ Len(result.nodes) = 1
  /\ Len(result.nodes[1].children) = 2
  /\ result.nodes[1].children[1].type = "folder"

\* the number of continuation blocks the line begins with
RECURSIVE LeadingBlocks(_)
LeadingBlocks(line) ==
  IF StartsWithBlock(line) THEN 1 + LeadingBlocks(SubstringFrom(line, 4)) ELSE 0

\* what follows the continuation blocks
AfterBlocks(line) == SubstringFrom(line, 4 * LeadingBlocks(line))

\* continuation blocks, a connector, and a name
IsConnectorLine(line) ==
  /\ Substring(AfterBlocks(line), 0, 3) \in {BranchMarker, CornerMarker}
  /\ Trim(SubstringFrom(AfterBlocks(line), 3)) \notin {<<>>, <<Slash>>}

\* the trimmed remainder after the connector
NameAfterConnector(line) == Trim(SubstringFrom(AfterBlocks(line), 3))

WithoutSlash(name) ==
  IF EndsWith(name, <<Slash>>) THEN SubSeq(name, 1, Len(name) - 1) ELSE name

\* the node of every line is in the forest, at the place of its line, with
\* the number of the blocks before the connector for its level (its depth,
\* but for the one added below a single root) and with the remainder after
\* the connector for its name
LevelsAreBlockCounts(lines) ==
  LET walk == Preorder(result.nodes)
  IN  /\ Len(walk) = Len(lines)
      /\ \A i \in 1..Len(lines) :
           /\ walk[i].depth = LeadingBlocks(lines[i])
                                + (IF Len(result.nodes) = 1 /\ i > 1 THEN 1 ELSE 0)
           /\ walk[i].name = WithoutSlash(NameAfterConnector(lines[i]))

\* C28: in a text of connector lines, the level of a line is the number of
\* the continuation blocks before its connector and its name the trimmed
\* remainder after the connector, whatever the characters of the name.
C28_LevelIsBlockCount ==
  LET lines == Split(sanitizeInput(input))
  IN  result # NoResult /\ input # <<>> /\ Trim(input) # <<>>
        /\ (\A i \in 1..Len(lines) : IsConnectorLine(lines[i]))
      => result.success /\ LevelsAreBlockCounts(lines)

\* the same of the names that hold no tree character and no run of four
\* spaces
C28_LevelOfPlainNames ==
  LET lines == Split(sanitizeInput(input))
  IN  result # NoResult /\ input # <<>> /\ Trim(input) # <<>>
        /\ (\A i \in 1..Len(lines) :
              /\ IsConnectorLine(lines[i])
              /\ ~HasTreeChar(NameAfterConnector(lines[i]))
              /\ \A p \in 0..Len(NameAfterConnector(lines[i])) :
                   Substring(NameAfterConnector(lines[i]), p, p + 4) # BlankBlock)
      => result.success /\ LevelsAreBlockCounts(lines)

(***************************************************************************)
(* The depths of the markdown grammar (SpecParse).                         *)
(***************************************************************************)
\* the forest is one folder that has a child
SingleRootWithChild(nodes) ==
  /\ Len(nodes) = 1
  /\ nodes[1].type = "folder"
  /\ HasChildren(nodes[1])
  /\ Len(nodes[1].children) >= 1

\* the i-th node of the walk, which is the node of the i-th line, has half
\* the width of the indentation of its line for its depth, rounded down,
\* and one more if it is below the single root
DepthsFromWidths(lines) ==
  LET walk == Preorder(result.nodes)
  IN  /\ Len(walk) = Len(lines)
      /\ \A i \in 1..Len(lines) :
           walk[i].depth = (LeadingSpaces(lines[i]) \div 2)
                             + (IF SingleRootWithChild(result.nodes) /\ i > 1
                                  THEN 1 ELSE 0)

RECURSIVE JoinWith(_, _)
JoinWith(names, sep) ==
  IF Len(names) = 1 THEN names[1]
  ELSE names[1] \o <<sep>> \o JoinWith(Tail(names), sep)

\* for every node of the pre-order walk, the names of its ancestors and its
\* own, from the root down
RECURSIVE LineagesFrom(_, _)
LineagesFrom(nodes, ancestors) ==
  IF nodes = <<>> THEN <<>>
  ELSE <<ancestors \o <<Head(nodes).name>>>>
         \o (IF HasChildren(Head(nodes))
               THEN LineagesFrom(Head(nodes).children, ancestors \o <<Head(nodes).name>>)
               ELSE <<>>)
         \o LineagesFrom(Tail(nodes), ancestors)

\* the separator of the shell the script is for
SeparatorOf(scriptType) ==
  IF scriptType \in {"powershell", "cmd"} THEN Backslash ELSE Slash

\* the paths of the nodes of one kind, in pre-order
PathsOfKind(nodes, type, sep) ==
  LET walk == Preorder(nodes)
      lineages == LineagesFrom(nodes, <<>>)
      chosen == SelectSeq([i \in 1..Len(walk) |-> i], LAMBDA i : walk[i].type = type)
  IN  [k \in 1..Len(chosen) |-> JoinWith(lineages[chosen[k]], sep)]

CommandPaths(script, kind) ==
  LET chosen == SelectSeq(script, LAMBDA line : line.kind = kind)
  IN  [k \in 1..Len(chosen) |-> chosen[k].path]

Occurrences(seq, x) == Cardinality({i \in 1..Len(seq) : seq[i] = x})

\* C25: the script has one creation command for every node; those of the
\* folders come in pre-order and before those of the files, the message of
\* success is the last line, and the path of a command is the names of the
\* ancestors of its node and its own name, joined in order.
C25_ScriptAsStated ==
  result # NoResult /\ entry = "copyAsScript" =>
    LET script == result.script
        sep == SeparatorOf(result.scriptType)
        folders == PathsOfKind(state.nodes, "folder", sep)
        files == PathsOfKind(state.nodes, "file", sep)
    IN  /\ CommandPaths(script, "folder") = folders
        /\ Len(CommandPaths(script, "file")) = Len(files)
        /\ \A i \in 1..Len(files) :
             Occurrences(CommandPaths(script, "file"), files[i]) = Occurrences(files, files[i])
        /\ \A i, j \in 1..Len(script) :
             script[i].kind = "folder" /\ script[j].kind = "file" => i < j
        /\ script[Len(script)].kind = "message"
        /\ \A i \in 1..Len(script) - 1 : script[i].kind # "message"

\* the same of the forests that have no node of the empty name
C25_ScriptOfNamedForest ==
  (\A i \in 1..Len(Preorder(state.nodes)) : Preorder(state.nodes)[i].name # <<>>)
    => C25_ScriptAsStated

\* a name the formatter can write and the parser read back: not empty, no
\* white space around it, no comment mark, no slash, no tree character
WellFormedName(name) ==
  /\ name # <<>>
  /\ Trim(name) = name
  /\ \A i \in 1..Len(name) : name[i] \notin {Hash, Slash, Tee, Corner, Vbar, Hbar, NL}

WellFormed(nodes) ==
  \A i \in 1..Len(Preorder(nodes)) : WellFormedName(Preorder(nodes)[i].name)

\* the line of the i-th node of the walk: two spaces for every ancestor,
\* the bullet, the name, and a slash after a folder
ExpectedLine(nodes, i) ==
  Spaces(2 * (Len(LineagesFrom(nodes, <<>>)[i]) - 1))
    \o <<Dash, SP>> \o Preorder(nodes)[i].name
    \o (IF Preorder(nodes)[i].type = "folder" THEN <<Slash>> ELSE <<>>)

RoundTrip(nodes, text) ==
  LET back == parseDirectoryStructure(text, FreshDraws)
  IN  /\ back.success
      /\ ShapeOf(back.nodes) = ShapeOf(nodes)

\* C26 as it is stated: the markdown text of a forest of well-formed names
\* parses to a forest of the same shape, names, kinds and sibling order,
\* and has one line for every node, indented two spaces for every level.
C26_RoundTripAsStated ==
  result # NoResult /\ entry = "copyAsText" /\ result.style = "markdown"
    /\ WellFormed(state.nodes)
  => /\ RoundTrip(state.nodes, result.text)
     /\ Len(Split(result.text)) = Len(Preorder(state.nodes))
     /\ \A i \in 1..Len(Preorder(state.nodes)) :
          Split(result.text)[i] = ExpectedLine(state.nodes, i)

\* C26: the same of a forest that has a node; the text of the empty forest
\* is the empty string, which the parser rejects.
C26_RoundTrip ==
  result # NoResult /\ entry = "copyAsText" /\ result.style = "markdown"
    /\ WellFormed(state.nodes)
  => IF state.nodes = <<>>
       THEN result.text = <<>> /\ ~parseDirectoryStructure(result.text, FreshDraws).success
       ELSE /\ RoundTrip(state.nodes, result.text)
            /\ Len(Split(result.text)) = Len(Preorder(state.nodes))
            /\ \A i \in 1..Len(Preorder(state.nodes)) :
                 Split(result.text)[i] = ExpectedLine(state.nodes, i)

\* a folder with a spaced name, a folder in it and a file in that one, read
\* back from its text
C26_Witness ==
  /\ result # NoResult /\ entry = "copyAsText" /\ result.style = "markdown"
  /\ WellFormed(state.nodes)
  /\ Len(state.nodes) = 1
  /\ state.nodes[1].name = <<"a", SP, "b">>
  /\ Len(Preorder(state.nodes)) = 3
  /\ Preorder(state.nodes)[3].type = "file"
  /\ ParentsFrom(state.nodes, 0, 0)[3] = 2
  /\ RoundTrip(state.nodes, result.text)

(***************************************************************************)
(* The selection (SpecSelect).                                             *)
(***************************************************************************)
\* C30: when SELECT_NODE is only dispatched with null or with the id of a
\* node of the forest, the selected id is null or the id of a node of the
\* forest in every state, also after the deletion of an ancestor of the
\* selected node.
C30_SelectionNeverDangles ==
  state.selectedNodeId = Null \/ findNodeById(state.nodes, state.selectedNodeId) # NoNode

\* the same but for the steps that delete a node above the selected one
C30_SelectionDanglesOnlyByDelete ==
  [][/\ C30_SelectionNeverDangles
     /\ ~(state'.selectedNodeId = Null
            \/ findNodeById(state'.nodes, state'.selectedNodeId) # NoNode)
     => /\ action'.type = "DELETE_NODE"
        /\ action'.payload # state.selectedNodeId
        /\ findNodeById(state.nodes, action'.payload) # NoNode]_vars

====
